---- MODULE Spec2Model ----
(***************************************************************************)
(* The agent execution loop of dexter (Agent.run), its tool-dispatch       *)
(* subsystem (AgentToolExecutor.executeAll, the run context's scratchpad), *)
(* the two ways a run is started: Agent.create(...).run(...) and the       *)
(* runAgent wrapper used by POST /api/chat, the financial_search           *)
(* meta-router with the withRetry helper of its routing call, and the      *)
(* choice of provider and API key for the model and the sub-tools of a     *)
(* run (resolveProvider, getApiKey, createLLM).                            *)
(*                                                                         *)
(* Agent.run, runAgent and the chat handler are translated from            *)
(* src/unnamed/part_002 and src/unnamed/part_004.  tool-executor.ts,       *)
(* run-context.ts and prompts.ts are not part of the sources, so the       *)
(* executor and the scratchpad are modelled from sections 3, 4.2 and 4.3   *)
(* of the specification.                                                   *)
(***************************************************************************)
EXTENDS Integers, Sequences, FiniteSets, TLC

(***************************************************************************)
(* Bounds of the model.                                                    *)
(***************************************************************************)
\* largest explicit config.maxIterations explored
MaxIterations == 2
\* largest number of tool calls the model requests over one run, in one
\* response or spread over several
MaxCalls == 2
\* largest number of sub-tool calls the routing model selects in one response
MaxSelected == 2
\* longest model name, in name pieces, handed to createLLM
MaxNameLen == 3

(***************************************************************************)
(* Program constants.                                                      *)
(***************************************************************************)
\* this.config.maxIterations ?? 10
DefaultMaxIterations == 10

\* withRetry(fn, provider, maxAttempts = 3)
RetryMaxAttempts == 3

\* Names the registry maps to a tool, and a name it does not know.
Registered == {"financial_search"}
ToolNames == Registered \cup {"unknown_tool"}

(***************************************************************************)
(* Values.  A JavaScript string is a sequence of tokens, so that           *)
(* concatenation and JSON.stringify are computed and not assumed.          *)
(***************************************************************************)
Str(s) == [kind |-> "string", val |-> s]
Arr(s) == [kind |-> "array", val |-> s]

\* response.content as the chat model returns it: '', a text, or an array of
\* content blocks (here the empty array, which JavaScript holds truthy)
ContentValues == {Str(<<>>), Str(<<"text">>), Arr(<<>>)}

\* if (response.content): '' is falsy, every array is truthy
Truthy(content) == content.kind = "array" \/ content.val # <<>>

\* typeof content === 'string' ? content : JSON.stringify(content)
Stringify(content) ==
  IF content.kind = "string" THEN content
  ELSE Str(<<"[">> \o content.val \o <<"]">>)

\* ToolOutcome of section 3
Success == [kind |-> "Success", message |-> "data"]
Failure(m) == [kind |-> "Failure", message |-> m]
NoOutcome == [kind |-> "none", message |-> ""]
\* what tool.invoke can do: return data, or throw
InvokeResults == {Success, Failure("tool threw")}

ApprovalAnswers == {"grant_once", "grant_remember", "deny"}

\* null, which JavaScript holds falsy
Null == [kind |-> "null", val |-> <<>>]

\* FINANCE_TOOL_MAP: the sub-tools the router can invoke (two of the eighteen),
\* and a name the routing model can return that is none of them
FinanceTools == {"get_stock_price", "get_company_news"}
SubToolNames == FinanceTools \cup {"get_weather"}
\* args.ticker of a selected call: undefined, or a symbol
Tickers == {<<>>, <<"AAPL">>, <<"MSFT">>}
\* the tool calls the routing model can select
SelectableCalls ==
  {[tool |-> t, args |-> [ticker |-> k]] : t \in FinanceTools, k \in Tickers}
    \cup {[tool |-> "get_weather", args |-> [ticker |-> <<>>]]}
\* what a sub-tool's invoke can do: return a wrapped result with its source
\* URLs, or throw an Error with some message, '' included
SourceUrlLists == {<<>>, <<"u1">>, <<"u2", "u1">>}
ThrownMessages == {Str(<<>>), Str(<<"boom">>)}
SubToolOutcomes ==
  {[threw |-> FALSE, message |-> Null, sourceUrls |-> u] : u \in SourceUrlLists}
    \cup {[threw |-> TRUE, message |-> m, sourceUrls |-> <<>>] : m \in ThrownMessages}
\* content of the routing model's response
RouterContents == {Str(<<"text">>), Arr(<<>>)}

VARIABLES
  entry,                \* "direct": Agent.create(..).run(..); "chat": POST /api/chat;
                        \* "tool": financial_search's func is invoked
  maxIterations,        \* config.maxIterations: <<>> (undefined) or <<n>>
  hasSignal,            \* config.signal is given
  aborted,              \* config.signal.aborted
  hasApproval,          \* config.requestToolApproval is given
  sessionApprovedTools, \* config.sessionApprovedTools
  pc,                   \* where Agent.run (or runAgent) stands
  iteration,            \* ctx.iteration
  thinking,             \* ctx.scratchpad: thinking fragments
  records,              \* ctx.scratchpad: ToolCallRecords
  messages,             \* the iteration prompt of the current pass
  sent,                 \* history: the prompt of every llm.invoke
  responses,            \* history: the model responses; the last is `response`
  events,               \* history: the events Agent.run has yielded
  error,                \* the error the generator threw, "" when none
  batch,                \* executeAll: the ToolCallRequests of the batch
  phase,                \* executeAll: per request new/asking/approved/running/ended
  outcome,              \* executeAll: per request its ToolOutcome
  gate,                 \* executeAll: next request to resolve and gate
  nextId,               \* next correlation id the provider assigns
  asked,                \* history: ids the approval callback was invoked for
  answered,             \* history: what the approval callback answered
  invoked,              \* history: ids whose tool.invoke was called, and the
                        \* number of events yielded by then
  batches,              \* history: per completed dispatch, its requests
  stream,               \* chat: what controller.enqueue was given
  closed,               \* chat: number of controller.close() calls
  attempt,              \* withRetry: its loop counter
  retryLog,             \* history: withRetry's calls of fn and its waits
  routed,               \* financial_search: the routing model's response
  subPhase,             \* financial_search: per selected call running/settled
  subResults,           \* financial_search: per selected call its result object
  subInvoked,           \* history: selected calls whose tool.invoke was called
  completion,           \* history: selected calls in the order they settled
  routerOut,            \* financial_search: what func returned or threw
  runCfg,               \* per simultaneous run: config.model, .modelProvider, .apiKeys
  env,                  \* process.env: the API keys of the process
  keyUse                \* history, per run: the credential each consumer took

config == <<entry, maxIterations, hasSignal, hasApproval>>
loopVars == <<iteration, thinking, records, messages, sent, responses>>
execVars == <<batch, phase, outcome, gate, asked, answered, invoked, batches>>
chatVars == <<stream, closed>>
routerVars == <<attempt, retryLog, routed, subPhase, subResults, subInvoked,
                completion, routerOut>>
llmVars == <<runCfg, env, keyUse>>
vars == <<config, aborted, sessionApprovedTools, pc, loopVars, events, error,
          execVars, nextId, chatVars, routerVars, llmVars>>

NoMessages == [query |-> "q", toolResults |-> <<>>, toolUsage |-> <<>>]

(***************************************************************************)
(* Run context / scratchpad (section 4.2).                                 *)
(***************************************************************************)
\* one record rendered for the prompt: the call, its tool and what came back
RenderRecord(r) == <<r.request.id, r.request.name, r.outcome.kind, r.outcome.message>>

\* scratchpad.getToolResults(): the records in insertion order
getToolResults(recs) == [i \in 1..Len(recs) |-> RenderRecord(recs[i])]

\* scratchpad.formatToolUsageForPrompt(): the tools called, in insertion order
formatToolUsageForPrompt(recs) == [i \in 1..Len(recs) |-> recs[i].request.name]

\* scratchpad.getToolCallRecords()
getToolCallRecords(recs) == recs

\* scratchpad.addThinking(text)
addThinking(th, text) == Append(th, text)

(***************************************************************************)
(* Agent.run                                                               *)
(***************************************************************************)
\* const maxIterations = this.config.maxIterations ?? 10
EffectiveMaxIterations ==
  IF maxIterations = <<>> THEN DefaultMaxIterations ELSE maxIterations[1]

\* an executor constructed without the approval callback
ExecutorApprovalDropped == FALSE

\* new AgentToolExecutor(.., this.config.requestToolApproval, ..)
ExecutorApproval == hasApproval

\* an executor constructed without the session's approved tools
ExecutorSessionApprovedDropped == {}

\* new AgentToolExecutor(.., this.config.sessionApprovedTools)
ExecutorSessionApproved == sessionApprovedTools

\* an executor constructed without the cancellation signal
ExecutorSignalDropped == FALSE

\* new AgentToolExecutor(this.toolMap, this.config.signal, ..)
ExecutorSignal == hasSignal /\ aborted

\* a loop test that is off by one
LoopContinuesInclusive(it) == it <= EffectiveMaxIterations

\* while (ctx.iteration < maxIterations)
LoopContinues(it) == it < EffectiveMaxIterations

\* ctx.iteration++
NextIteration(it) == it + 1

\* a pass that does not look at the signal
SignalNotChecked == FALSE

\* this.config.signal?.aborted
SignalAborted == hasSignal /\ aborted

\* a prompt assembled once, before the loop, from the scratchpad as it then was
IterationMessagesHoisted(recs) ==
  [query |-> "q", toolResults |-> <<>>, toolUsage |-> <<>>]

\* buildIterationPrompt(ctx.query, getToolResults(), formatToolUsageForPrompt())
IterationMessages(recs) ==
  [query |-> "q",
   toolResults |-> getToolResults(recs),
   toolUsage |-> formatToolUsageForPrompt(recs)]

\* { type: 'thinking', message: iteration === 1 ? ... : ... }
ThinkingEvent(it) ==
  [type |-> "thinking",
   message |-> IF it = 1 THEN "Analyzing query..." ELSE "Analyzing results..."]

\* a test that lets a text win over the tool calls
HasToolCallsUnlessText(resp) == Len(resp.tool_calls) > 0 /\ ~Truthy(resp.content)

\* a test of the array alone: `if (response.tool_calls)`, and [] is truthy
HasToolCallsArrayTruthy(resp) == TRUE

\* response.tool_calls && response.tool_calls.length > 0
HasToolCalls(resp) == Len(resp.tool_calls) > 0

\* a dispatch of the first tool call only
DispatchedCallsFirstOnly(resp) == SubSeq(resp.tool_calls, 1, 1)

\* the batch handed to toolExecutor.executeAll(response, ctx)
DispatchedCalls(resp) == resp.tool_calls

\* the scratchpad's thinking after a response: if (response.content) addThinking
RecordThinking(th, resp) ==
  IF Truthy(resp.content) THEN addThinking(th, Stringify(resp.content)) ELSE th

\* the final answer of a tool-call-free response
FinalAnswer(resp) == Stringify(resp.content)

\* a zero-based iteration count
DoneIterationsZeroBased(it) == it - 1

\* iterations of a done event
DoneIterations(it) == it

\* a final answer that is not followed by `return`
AfterDoneNoReturn == "loop"

\* `return` after the done event of a final answer
AfterDone == "returned"

\* `return` in the place of `continue`
AfterDispatchReturn == "returned"

\* `continue` after executeAll
AfterDispatch == "loop"

\* the done event of a tool-call-free response
DoneEvent(resp, recs, it) ==
  [type |-> "done", answer |-> FinalAnswer(resp),
   toolCalls |-> getToolCallRecords(recs), iterations |-> DoneIterations(it)]

\* "I've reached the maximum number of attempts ...: \n\n" + getToolResults()
BudgetNote == "I've reached the maximum number of attempts"
\* a budget answer that leaves the gathered results out
BudgetAnswerNoteOnly(recs) == [kind |-> "string", val |-> <<BudgetNote>>]

BudgetAnswer(recs) == [kind |-> "string", val |-> <<BudgetNote>> \o getToolResults(recs)]

\* the done event after the loop
BudgetDoneEvent(recs, it) ==
  [type |-> "done", answer |-> BudgetAnswer(recs),
   toolCalls |-> getToolCallRecords(recs), iterations |-> DoneIterations(it)]

(***************************************************************************)
(* withRetry and callLlm (src/src/model/llm.ts) and the financial_search   *)
(* meta-router (createFinancialSearch in src/unnamed/part_004).            *)
(* formatToolResult (tools/types.ts) is not part of the sources and is     *)
(* modelled from section 4.5: a Success outcome wrapping data and URLs.    *)
(***************************************************************************)
NoResponse == [content |-> Null, tool_calls |-> <<>>]
NoResult == [kind |-> "none", data |-> <<>>, sourceUrls |-> <<>>]
\* func, or callLlm inside it, threw this error
Thrown(m) == [kind |-> "Thrown", data |-> m, sourceUrls |-> <<>>]

\* formatToolResult(data, sourceUrls)
formatToolResult(data, urls) == [kind |-> "Success", data |-> data, sourceUrls |-> urls]

\* a test that lets one attempt more through
LastAttemptOneLate(a) == a = RetryMaxAttempts

\* the error fn rejects with at the given attempt
RejectionOf(a) == Str(<<"model invocation failed", a>>)

\* if (attempt === maxAttempts - 1) throw e
LastAttempt(a) == a = RetryMaxAttempts - 1

\* setTimeout(r, 500 * 2 ** attempt)
RetryDelay(a) == 500 * 2 ^ a

\* one entry of the history of withRetry
RetryCall(a, ok) == [op |-> IF ok THEN "call_ok" ELSE "call_failed", attempt |-> a, ms |-> 0]
RetryWait(a) == [op |-> "wait", attempt |-> a, ms |-> RetryDelay(a)]

\* a test that takes any tool_calls array, [] too, for a selection
RouterSelectedArrayTruthy(resp) == TRUE

\* !( !toolCalls || toolCalls.length === 0 )
RouterSelected(resp) == Len(resp.tool_calls) > 0

\* an object literal with one key, and obj[key] = value
Obj(k, v) == [x \in {k} |-> v]
Put(obj, k, v) == [x \in DOMAIN obj \cup {k} |-> IF x = k THEN v ELSE obj[x]]

\* { error: 'No tools selected for query', message: typeof content === 'string'
\*   ? content : 'Router did not select tools' }
NoToolsPayload(resp) ==
  Put(Obj(<<"error">>, Str(<<"No tools selected for query">>)),
      <<"message">>,
      IF resp.content.kind = "string" THEN resp.content
      ELSE Str(<<"Router did not select tools">>))

\* FINANCE_TOOL_MAP.get(tc.name) is defined
KnownSubTool(tc) == tc.tool \in FinanceTools

\* the data a sub-tool returns for the i-th selected call
DataOf(i) == Str(<<"data", i>>)

\* the object the try block returns
ReturnedResult(tc, i, out) ==
  [tool |-> tc.tool, args |-> tc.args, data |-> DataOf(i),
   sourceUrls |-> out.sourceUrls, error |-> Null]

\* the object the catch block returns: error.message
CaughtResult(tc, message) ==
  [tool |-> tc.tool, args |-> tc.args, data |-> Null, sourceUrls |-> <<>>,
   error |-> message]

\* throw new Error(`Tool '${tc.name}' not found`), caught at once
NotFoundResult(tc) == CaughtResult(tc, Str(<<"Tool", tc.tool, "not found">>))

\* a call that has not settled
PendingResult(tc) ==
  [tool |-> tc.tool, args |-> tc.args, data |-> Null, sourceUrls |-> <<>>,
   error |-> Null]

\* a catch block that calls tool.invoke once more
InvokesAfterThrowRetry(i) == <<i>>

\* the catch block returns the error object: tool.invoke is not called again
InvokesAfterThrow(i) == <<>>

\* the calls whose tool.invoke the map callback calls, in request order
InvokedAtFanOut(calls) ==
  LET Known(i) == KnownSubTool(calls[i])
  IN SelectSeq([i \in 1..Len(calls) |-> i], Known)

\* the calls whose name is no sub-tool: their callback throws and catches
\* before its first await, in request order
CaughtAtFanOut(calls) ==
  LET Unknown(i) == ~KnownSubTool(calls[i])
  IN SelectSeq([i \in 1..Len(calls) |-> i], Unknown)

\* a Promise.all that resolves with the first call that settles
PromiseAllResolvedEarly(ph) == \E i \in DOMAIN ph : ph[i] = "settled"

\* await Promise.all(...): resolves when every callback has settled
PromiseAllResolved(ph) == \A i \in DOMAIN ph : ph[i] = "settled"

\* results handed over in the order the calls settled
PromiseAllResultsAsSettled(results, order) ==
  [n \in 1..Len(order) |-> results[order[n]]]

\* Promise.all gives the results in the order of toolCalls, whatever the
\* order the calls settled in
PromiseAllResults(results, order) == results

\* if (result.error)
IsErrorResult(r) == Truthy(r.error)

\* a key that leaves the ticker out
ResultKeyToolOnly(r) ==
  IF IsErrorResult(r) THEN <<r.tool, "error">> ELSE <<r.tool>>

\* `${result.tool}_error`, or ticker ? `${result.tool}_${ticker}` : result.tool
ResultKey(r) ==
  IF IsErrorResult(r) THEN <<r.tool, "error">>
  ELSE IF r.args.ticker # <<>> THEN <<r.tool>> \o r.args.ticker
  ELSE <<r.tool>>

\* for (const result of results) combinedData[key] = ...
RECURSIVE CombinedData(_)
CombinedData(rs) ==
  IF rs = <<>> THEN <<>>
  ELSE LET r == rs[Len(rs)]
       IN Put(CombinedData(SubSeq(rs, 1, Len(rs) - 1)), ResultKey(r),
              IF IsErrorResult(r) THEN r.error ELSE r.data)

\* allUrls.push(...result.sourceUrls) for the results that are no errors
RECURSIVE AllUrls(_)
AllUrls(rs) ==
  IF rs = <<>> THEN <<>>
  ELSE LET r == rs[Len(rs)]
       IN AllUrls(SubSeq(rs, 1, Len(rs) - 1))
            \o (IF IsErrorResult(r) THEN <<>> ELSE r.sourceUrls)

\* the list as pushed, duplicates kept
KeepDuplicates(urls) == urls

\* Array.from(new Set(urls)): first occurrences, in order
RECURSIVE Dedupe(_)
Dedupe(urls) ==
  IF urls = <<>> THEN <<>>
  ELSE LET front == Dedupe(SubSeq(urls, 1, Len(urls) - 1))
           u == urls[Len(urls)]
       IN IF \E j \in DOMAIN front : front[j] = u THEN front ELSE Append(front, u)

(***************************************************************************)
(* Providers and credentials: resolveProvider (src/src/providers.ts),      *)
(* createLLM and getApiKey (src/src/model/llm.ts), and the Alpha Vantage   *)
(* sub-tools (src/src/tools/finance/alpha_vantage.ts).  A model name is a  *)
(* sequence of name pieces, a prefix is a sequence of the same pieces, so  *)
(* startsWith and slice are computed on sequences.                         *)
(***************************************************************************)
\* the pieces model names are made of
NameTokens ==
  {"claude", "gemini", "grok", "kimi", "deepseek", "openrouter", "ollama",
   "gpt", "-", ":", "/"}
ModelNames == UNION {[1..n -> NameTokens] : n \in 0..MaxNameLen}

\* PROVIDERS, in the order of the array; apiKeyEnvVar "" when omitted
PROVIDERS ==
  << [id |-> "openai", modelPrefix |-> <<>>, apiKeyEnvVar |-> "OPENAI_API_KEY"],
     [id |-> "anthropic", modelPrefix |-> <<"claude", "-">>,
      apiKeyEnvVar |-> "ANTHROPIC_API_KEY"],
     [id |-> "google", modelPrefix |-> <<"gemini", "-">>,
      apiKeyEnvVar |-> "GOOGLE_API_KEY"],
     [id |-> "xai", modelPrefix |-> <<"grok", "-">>, apiKeyEnvVar |-> "XAI_API_KEY"],
     [id |-> "moonshot", modelPrefix |-> <<"kimi", "-">>,
      apiKeyEnvVar |-> "MOONSHOT_API_KEY"],
     [id |-> "deepseek", modelPrefix |-> <<"deepseek", "-">>,
      apiKeyEnvVar |-> "DEEPSEEK_API_KEY"],
     [id |-> "openrouter", modelPrefix |-> <<"openrouter", ":">>,
      apiKeyEnvVar |-> "OPENROUTER_API_KEY"],
     [id |-> "ollama", modelPrefix |-> <<"ollama", ":">>, apiKeyEnvVar |-> ""] >>

\* PROVIDERS.find((p) => p.id === 'openai')
defaultProvider == PROVIDERS[CHOOSE i \in DOMAIN PROVIDERS : PROVIDERS[i].id = "openai"]

\* modelName.startsWith(prefix)
StartsWith(name, prefix) ==
  Len(prefix) <= Len(name) /\ SubSeq(name, 1, Len(prefix)) = prefix

\* p.modelPrefix.endsWith(':') ? p.modelPrefix.slice(0, -1) : p.modelPrefix
NormalizedPrefix(prefix) ==
  IF prefix # <<>> /\ prefix[Len(prefix)] = ":"
    THEN SubSeq(prefix, 1, Len(prefix) - 1)
    ELSE prefix

\* the callback of PROVIDERS.find in resolveProvider
ProviderMatches(p, name) ==
  IF p.modelPrefix = <<>> THEN FALSE
  ELSE \/ StartsWith(name, NormalizedPrefix(p.modelPrefix) \o <<":">>)
       \/ StartsWith(name, NormalizedPrefix(p.modelPrefix) \o <<"/">>)

\* resolveProvider(modelName): the first match, ?? defaultProvider
resolveProvider(name) ==
  LET hits == {i \in DOMAIN PROVIDERS : ProviderMatches(PROVIDERS[i], name)}
  IN IF hits = {} THEN defaultProvider
     ELSE PROVIDERS[CHOOSE i \in hits : \A j \in hits : i <= j]

\* DEFAULT_MODEL = 'gpt-4o-mini', and 'gpt-4o' of Agent.create
DEFAULT_MODEL == <<"gpt">>

\* the keys of MODEL_FACTORIES, and MODEL_FACTORIES[providerId] ||
\* MODEL_FACTORIES.openai
FactoryIds == {"openai", "anthropic", "google", "openrouter", "ollama"}
FactoryOf(providerId) == IF providerId \in FactoryIds THEN providerId ELSE "openai"

\* the name each factory hands to getApiKey; ollama asks for none
FactoryKeyName(factory) ==
  CASE factory = "openai" -> "OPENAI_API_KEY"
    [] factory = "anthropic" -> "ANTHROPIC_API_KEY"
    [] factory = "google" -> "GOOGLE_API_KEY"
    [] factory = "openrouter" -> "OPENROUTER_API_KEY"
    [] factory = "ollama" -> ""

\* the names of the credentials
KeyNames ==
  {"OPENAI_API_KEY", "ANTHROPIC_API_KEY", "GOOGLE_API_KEY", "XAI_API_KEY",
   "MOONSHOT_API_KEY", "DEEPSEEK_API_KEY", "OPENROUTER_API_KEY",
   "ALPHA_VANTAGE_API_KEY"}
\* the names whose values the explored configurations vary
VariedKeyNames == {"OPENAI_API_KEY", "ALPHA_VANTAGE_API_KEY"}

\* two simultaneous runs
Runs == {1, 2}
\* a record of keys (undefined where a name is missing), no apiKeys at all
NoKeys == [n \in KeyNames |-> Null]
\* process.env with every key set
FullEnv == [n \in KeyNames |-> Str(<<"env", n>>)]
\* process.env with some of the varied keys unset
Envs ==
  {[n \in KeyNames |-> IF n \in unset THEN Null ELSE FullEnv[n]] :
     unset \in SUBSET VariedKeyNames}
\* what a run can supply under a name: nothing, '', or a key of its own
SuppliedValues(r) == {Null, Str(<<>>), Str(<<"key", r>>)}
ApiKeys(r) ==
  {[n \in KeyNames |-> IF n \in VariedKeyNames THEN f[n] ELSE Null] :
     f \in [VariedKeyNames -> SuppliedValues(r)]}
\* a config with no model, no provider and no keys
DefaultRunConfig == [model |-> <<>>, provider |-> "", apiKeys |-> NoKeys]
\* configurations that vary the model name of run 1
ProviderInputs ==
  {[r \in Runs |-> IF r = 1 THEN [DefaultRunConfig EXCEPT !.model = m]
                   ELSE DefaultRunConfig] : m \in ModelNames}
\* configurations that vary the keys of both runs
KeyInputs ==
  {[r \in Runs |-> [model |-> m[r], provider |-> "", apiKeys |-> k[r]]] :
     m \in [Runs -> {<<"gpt">>, <<"ollama", ":", "gpt">>}],
     k \in {f \in [Runs -> UNION {ApiKeys(r) : r \in Runs}] :
              \A r \in Runs : f[r] \in ApiKeys(r)}}

\* overrides?.[envVar] || process.env[envVar]
getApiKey(envVar, overrides, e) ==
  IF Truthy(overrides[envVar]) THEN overrides[envVar] ELSE e[envVar]

\* createLLM(config): the provider given or resolved, its factory, and the
\* key the factory gets from getApiKey, which throws when there is none
createLLM(cfg, e) ==
  LET model == IF cfg.model # <<>> THEN cfg.model ELSE DEFAULT_MODEL
      providerId == IF cfg.provider # "" THEN cfg.provider
                    ELSE resolveProvider(model).id
      factory == FactoryOf(providerId)
      name == FactoryKeyName(factory)
      key == IF name = "" THEN Null ELSE getApiKey(name, cfg.apiKeys, e)
  IN [model |-> model, provider |-> providerId, factory |-> factory,
      name |-> name, key |-> key, threw |-> name # "" /\ ~Truthy(key)]

\* const apiKey = process.env.ALPHA_VANTAGE_API_KEY, whatever config.metadata
\* .apiKeys the router passes to invoke
AlphaVantageKey(overrides, e) == e["ALPHA_VANTAGE_API_KEY"]

\* The state after construction, for a run entered in one of `entries`,
\* credentials left aside.
StartState(entries) ==
  /\ entry \in entries
  /\ maxIterations \in {<<>>} \cup {<<n>> : n \in 0..MaxIterations}
  /\ hasSignal \in BOOLEAN
  /\ hasApproval \in BOOLEAN
  /\ sessionApprovedTools \in SUBSET Registered
  \* the chat handler passes model, modelProvider and apiKeys only;
  \* financial_search's func runs under no agent configuration
  /\ entry \in {"chat", "tool", "llm"} =>
       /\ maxIterations = <<>>
       /\ ~hasSignal
       /\ ~hasApproval
       /\ sessionApprovedTools = {}
  /\ ~hasApproval => sessionApprovedTools = {}
  /\ aborted = FALSE
  /\ pc = CASE entry = "direct" -> "loop"
            [] entry = "chat" -> "runner"
            [] entry = "tool" -> "tool"
            [] entry = "llm" -> "llm"
  /\ iteration = 0
  /\ thinking = <<>>
  /\ records = <<>>
  /\ messages = NoMessages
  /\ sent = <<>>
  /\ responses = <<>>
  /\ events = <<>>
  /\ error = ""
  /\ batch = <<>>
  /\ phase = <<>>
  /\ outcome = <<>>
  /\ gate = 1
  /\ nextId = 1
  /\ asked = <<>>
  /\ answered = <<>>
  /\ invoked = <<>>
  /\ batches = <<>>
  /\ stream = <<>>
  /\ closed = 0
  /\ attempt = 0
  /\ retryLog = <<>>
  /\ routed = NoResponse
  /\ subPhase = <<>>
  /\ subResults = <<>>
  /\ subInvoked = <<>>
  /\ completion = <<>>
  /\ routerOut = NoResult

\* the same, for one run whose credentials are not looked at
Start(entries) ==
  /\ StartState(entries)
  /\ runCfg = [r \in Runs |-> DefaultRunConfig]
  /\ env = FullEnv
  /\ keyUse = [r \in Runs |-> <<>>]

\* Agent.run called directly, or reached through the chat handler
Init == Start({"direct", "chat"})
\* financial_search's func called directly
RouterInit == Start({"tool"})
SystemInit == Start({"direct", "chat", "tool"})
\* two runs are configured: one whose model name varies, or two whose keys
\* and process environment vary
LlmInit ==
  /\ StartState({"llm"})
  /\ \/ runCfg \in ProviderInputs /\ env = FullEnv
     \/ runCfg \in KeyInputs /\ env \in Envs
  /\ keyUse = [r \in Runs |-> <<>>]

\* One pass of the while loop up to the model call: count the pass, fail fast
\* on cancellation, assemble the prompt, yield the thinking event and call
\* this.llm.invoke(messages).
IterationStart ==
  /\ pc = "loop"
  /\ LoopContinues(iteration)
  /\ iteration' = NextIteration(iteration)
  /\ IF SignalAborted
       THEN /\ pc' = "threw"
            /\ error' = "Agent execution cancelled"
            /\ UNCHANGED <<messages, sent, events>>
       ELSE /\ pc' = "llm"
            /\ messages' = IterationMessages(records)
            /\ events' = Append(events, ThinkingEvent(iteration'))
            /\ sent' = Append(sent, messages')
            /\ error' = error
  /\ UNCHANGED <<config, llmVars, routerVars, aborted, sessionApprovedTools, thinking, records,
                 responses, execVars, nextId, chatVars>>

\* await this.llm.invoke(messages) resolves with a response; its content is
\* recorded, then either the tool calls are dispatched or done is yielded.
LlmRespond ==
  /\ pc = "llm"
  /\ \E content \in ContentValues, n \in 0..MaxCalls :
       \E names \in [1..n -> ToolNames] :
         /\ nextId + n - 1 <= MaxCalls
         /\ responses' = Append(responses,
              [content |-> content,
               tool_calls |-> [i \in 1..n |->
                                 [id |-> nextId + i - 1, name |-> names[i]]]])
         /\ nextId' = nextId + n
  /\ LET response == responses'[Len(responses')] IN
     /\ thinking' = RecordThinking(thinking, response)
     /\ IF HasToolCalls(response)
          THEN /\ pc' = "dispatch"
               /\ batch' = DispatchedCalls(response)
               /\ phase' = [i \in 1..Len(batch') |-> "new"]
               /\ outcome' = [i \in 1..Len(batch') |-> NoOutcome]
               /\ gate' = 1
               /\ events' = events
          ELSE /\ pc' = AfterDone
               /\ events' = Append(events, DoneEvent(response, records, iteration))
               /\ UNCHANGED <<batch, phase, outcome, gate>>
  /\ UNCHANGED <<config, llmVars, routerVars, aborted, sessionApprovedTools, iteration, records,
                 messages, sent, error, asked, answered, invoked, batches,
                 chatVars>>

\* await this.llm.invoke(messages) rejects: the generator throws.
LlmFail ==
  /\ pc = "llm"
  /\ pc' = "threw"
  /\ error' = IF SignalAborted THEN "AbortError" ELSE "model invocation failed"
  /\ UNCHANGED <<config, llmVars, routerVars, aborted, sessionApprovedTools, loopVars, events,
                 execVars, nextId, chatVars>>

\* The loop condition fails: the budget-exhausted done event.
BudgetExhausted ==
  /\ pc = "loop"
  /\ ~LoopContinues(iteration)
  /\ pc' = "returned"
  /\ events' = Append(events, BudgetDoneEvent(records, iteration))
  /\ UNCHANGED <<config, llmVars, routerVars, aborted, sessionApprovedTools, loopVars, error,
                 execVars, nextId, chatVars>>

\* The holder of the AbortController signals it, at any time during a run.
Abort ==
  /\ hasSignal
  /\ ~aborted
  /\ pc \in {"loop", "llm", "dispatch"}
  /\ aborted' = TRUE
  /\ UNCHANGED <<config, llmVars, routerVars, sessionApprovedTools, pc, loopVars, events, error,
                 execVars, nextId, chatVars>>

(***************************************************************************)
(* AgentToolExecutor.executeAll (section 4.3).  Requests are resolved and  *)
(* gated one at a time in request order; approved calls run concurrently;  *)
(* tool_end is yielded in completion order; when every call has ended the  *)
(* batch is joined and its records are appended in request order.          *)
(***************************************************************************)
ToolStartEvent(req) == [type |-> "tool_start", tool |-> req.name, id |-> req.id]

\* an executor that yields no tool_start
EmitStartNothing(ev, req) == ev

\* step 4: tool_start is yielded before the tool is invoked
EmitStart(ev, req) == Append(ev, ToolStartEvent(req))

\* step 4: tool_end is yielded once the outcome is known
EmitEnd(ev, req, out) == Append(ev, [type |-> "tool_end", tool |-> req.name,
                                      id |-> req.id, result |-> out])

\* a registry that resolves every name the model can ask for
ResolvesEveryName(req) == TRUE

\* step 1: the registry knows the name
Resolves(req) == req.name \in Registered

\* step 2: a policy is configured and the name is not approved for the session
NeedsApproval(req) == ExecutorApproval /\ req.name \notin ExecutorSessionApproved

\* step 5: one ToolCallRecord per call of the batch, in request order
BatchRecords(reqs, outs, it) ==
  [i \in 1..Len(reqs) |-> [request |-> reqs[i], outcome |-> outs[i], iteration |-> it]]

\* a scratchpad that puts the newest records first
recordToolCallsNewestFirst(recs, new) == new \o recs

\* recordToolCall for every record of a joined batch
recordToolCalls(recs, new) == recs \o new

\* a call ends without its tool being invoked: both events, outcome known
EndUninvoked(i, out) ==
  /\ phase' = [phase EXCEPT ![i] = "ended"]
  /\ outcome' = [outcome EXCEPT ![i] = out]
  /\ events' = EmitEnd(EmitStart(events, batch[i]), batch[i], out)

\* steps 1 and 2 for the next request
ExecGate ==
  /\ pc = "dispatch"
  /\ ~ExecutorSignal
  /\ gate <= Len(batch)
  /\ phase[gate] = "new"
  /\ IF ~Resolves(batch[gate])
       THEN /\ EndUninvoked(gate, Failure("tool not found"))
            /\ gate' = gate + 1
            /\ asked' = asked
       ELSE IF NeedsApproval(batch[gate])
         THEN /\ phase' = [phase EXCEPT ![gate] = "asking"]
              /\ asked' = Append(asked, batch[gate].id)
              /\ UNCHANGED <<outcome, events, gate>>
         ELSE /\ phase' = [phase EXCEPT ![gate] = "approved"]
              /\ gate' = gate + 1
              /\ UNCHANGED <<outcome, events, asked>>
  /\ UNCHANGED <<config, llmVars, routerVars, aborted, sessionApprovedTools, pc, loopVars, error,
                 batch, answered, invoked, batches, nextId, chatVars>>

\* step 2: the approval callback answers
ApprovalAnswer ==
  /\ pc = "dispatch"
  /\ ~ExecutorSignal
  /\ gate <= Len(batch)
  /\ phase[gate] = "asking"
  /\ \E answer \in ApprovalAnswers :
       /\ answered' = Append(answered, [id |-> batch[gate].id,
                                        name |-> batch[gate].name,
                                        answer |-> answer])
       /\ sessionApprovedTools' =
            IF answer = "grant_remember"
              THEN sessionApprovedTools \cup {batch[gate].name}
              ELSE sessionApprovedTools
       /\ IF answer = "deny"
            THEN EndUninvoked(gate, Failure("not approved"))
            ELSE /\ phase' = [phase EXCEPT ![gate] = "approved"]
                 /\ UNCHANGED <<outcome, events>>
  /\ gate' = gate + 1
  /\ UNCHANGED <<config, llmVars, routerVars, aborted, pc, loopVars, error, batch, asked, invoked,
                 batches, nextId, chatVars>>

\* steps 3 and 4: an approved call is dispatched: tool_start, then tool.invoke
ToolStart ==
  /\ pc = "dispatch"
  /\ ~ExecutorSignal
  /\ \E i \in 1..Len(batch) :
       /\ phase[i] = "approved"
       /\ phase' = [phase EXCEPT ![i] = "running"]
       /\ events' = EmitStart(events, batch[i])
       /\ invoked' = Append(invoked, [id |-> batch[i].id, at |-> Len(events')])
  /\ UNCHANGED <<config, llmVars, routerVars, aborted, sessionApprovedTools, pc, loopVars, error,
                 batch, outcome, gate, asked, answered, batches, nextId,
                 chatVars>>

\* step 4: a running tool returns or throws; a throw becomes a Failure
ToolSettle ==
  /\ pc = "dispatch"
  /\ ~ExecutorSignal
  /\ \E i \in 1..Len(batch), result \in InvokeResults :
       /\ phase[i] = "running"
       /\ phase' = [phase EXCEPT ![i] = "ended"]
       /\ outcome' = [outcome EXCEPT ![i] = result]
       /\ events' = EmitEnd(events, batch[i], result)
  /\ UNCHANGED <<config, llmVars, routerVars, aborted, sessionApprovedTools, pc, loopVars, error,
                 batch, gate, asked, answered, invoked, batches, nextId,
                 chatVars>>

\* step 5: every call has ended: the records are appended, executeAll returns
\* and Agent.run continues with the next pass of the loop
ExecJoin ==
  /\ pc = "dispatch"
  /\ ~ExecutorSignal
  /\ gate > Len(batch)
  /\ \A i \in 1..Len(batch) : phase[i] = "ended"
  /\ records' = recordToolCalls(records, BatchRecords(batch, outcome, iteration))
  /\ batches' = Append(batches, batch)
  /\ pc' = AfterDispatch
  /\ batch' = <<>>
  /\ phase' = <<>>
  /\ outcome' = <<>>
  /\ gate' = 1
  /\ UNCHANGED <<config, llmVars, routerVars, aborted, sessionApprovedTools, iteration, thinking,
                 messages, sent, responses, events, error, asked, answered,
                 invoked, nextId, chatVars>>

\* step 3: the token is signalled before or during dispatch: the outstanding
\* calls are abandoned and one cancellation failure is raised for the batch
ExecCancel ==
  /\ pc = "dispatch"
  /\ ExecutorSignal
  /\ pc' = "threw"
  /\ error' = "Agent execution cancelled"
  /\ UNCHANGED <<config, llmVars, routerVars, aborted, sessionApprovedTools, loopVars, events,
                 execVars, nextId, chatVars>>

(***************************************************************************)
(* runAgent and the POST /api/chat stream.                                 *)
(***************************************************************************)
\* runAgent: `const agent = Agent.create(config)` is the promise of an agent,
\* not an agent: agent.run is undefined and calling it throws a TypeError
\* when the generator is first pulled.
RunAgent ==
  /\ pc = "runner"
  /\ pc' = "threw"
  /\ error' = "agent.run is not a function"
  /\ UNCHANGED <<config, llmVars, routerVars, aborted, sessionApprovedTools, loopVars, events,
                 execVars, nextId, chatVars>>

\* a catch clause that enqueues the error event twice
EnqueueErrorTwice(st, err) ==
  st \o <<[type |-> "error", error |-> err], [type |-> "error", error |-> err]>>

\* controller.enqueue(encoder.encode(`data: ${errorEvent}\n\n`)) with
\* errorEvent = { type: 'error', error: error.message }
EnqueueError(st, err) == Append(st, [type |-> "error", error |-> err])

\* start(controller): the catch clause enqueues one error event and closes
ChatCatch ==
  /\ entry = "chat"
  /\ pc = "threw"
  /\ closed = 0
  /\ stream' = EnqueueError(stream, error)
  /\ closed' = closed + 1
  /\ UNCHANGED <<config, llmVars, routerVars, aborted, sessionApprovedTools, pc, loopVars, events,
                 error, execVars, nextId>>

(***************************************************************************)
(* financial_search: func(input), run with no onProgress callback.         *)
(***************************************************************************)
\* func calls callLlm, whose createLLM throws when the provider's API key is
\* neither among the overrides nor in the environment
CallLlm ==
  /\ pc = "tool"
  /\ \E keyFound \in BOOLEAN :
       IF keyFound
         THEN /\ pc' = "route"
              /\ routerOut' = routerOut
         ELSE /\ pc' = "tool_threw"
              /\ routerOut' = Thrown(Str(<<"[LLM] API key not found">>))
  /\ UNCHANGED <<config, llmVars, aborted, sessionApprovedTools, loopVars, events, error,
                 execVars, nextId, chatVars, attempt, retryLog, routed,
                 subPhase, subResults, subInvoked, completion>>

\* withRetry: fn() rejects; the last attempt rethrows, any other waits
WithRetryFailure ==
  /\ pc = "route"
  /\ IF LastAttempt(attempt)
       THEN /\ retryLog' = Append(retryLog, RetryCall(attempt, FALSE))
            /\ pc' = "tool_threw"
            /\ routerOut' = Thrown(RejectionOf(attempt))
            /\ attempt' = attempt
       ELSE /\ retryLog' = retryLog \o <<RetryCall(attempt, FALSE), RetryWait(attempt)>>
            /\ attempt' = attempt + 1
            /\ UNCHANGED <<pc, routerOut>>
  /\ UNCHANGED <<config, llmVars, aborted, sessionApprovedTools, loopVars, events, error,
                 execVars, nextId, chatVars, routed, subPhase, subResults,
                 subInvoked, completion>>

\* withRetry: fn() resolves and callLlm returns the response; func returns the
\* no-tools payload, or starts every selected call: a name that is no sub-tool
\* is caught at once, every other call has its tool invoked
WithRetrySuccess ==
  /\ pc = "route"
  /\ retryLog' = Append(retryLog, RetryCall(attempt, TRUE))
  /\ \E n \in 0..MaxSelected :
       \E calls \in [1..n -> SelectableCalls], content \in RouterContents :
         routed' = [content |-> content, tool_calls |-> calls]
  /\ IF ~RouterSelected(routed')
       THEN /\ pc' = "tool_returned"
            /\ routerOut' = formatToolResult(NoToolsPayload(routed'), <<>>)
            /\ UNCHANGED <<subPhase, subResults, subInvoked, completion>>
       ELSE LET calls == routed'.tool_calls IN
            /\ pc' = "fanout"
            /\ subPhase' = [i \in 1..Len(calls) |->
                              IF KnownSubTool(calls[i]) THEN "running" ELSE "settled"]
            /\ subResults' = [i \in 1..Len(calls) |->
                                IF KnownSubTool(calls[i]) THEN PendingResult(calls[i])
                                ELSE NotFoundResult(calls[i])]
            /\ subInvoked' = InvokedAtFanOut(calls)
            /\ completion' = CaughtAtFanOut(calls)
            /\ routerOut' = routerOut
  /\ UNCHANGED <<config, llmVars, aborted, sessionApprovedTools, loopVars, events, error,
                 execVars, nextId, chatVars, attempt>>

\* one sub-tool's invoke returns or throws; the try and catch blocks turn it
\* into the call's result object
SubToolSettle ==
  /\ pc = "fanout"
  /\ \E i \in DOMAIN subPhase, out \in SubToolOutcomes :
       /\ subPhase[i] = "running"
       /\ subPhase' = [subPhase EXCEPT ![i] = "settled"]
       /\ completion' = Append(completion, i)
       /\ IF out.threw
            THEN /\ subResults' = [subResults EXCEPT
                                     ![i] = CaughtResult(routed.tool_calls[i], out.message)]
                 /\ subInvoked' = subInvoked \o InvokesAfterThrow(i)
            ELSE /\ subResults' = [subResults EXCEPT
                                     ![i] = ReturnedResult(routed.tool_calls[i], i, out)]
                 /\ subInvoked' = subInvoked
  /\ UNCHANGED <<config, llmVars, aborted, sessionApprovedTools, pc, loopVars, events,
                 error, execVars, nextId, chatVars, attempt, retryLog, routed,
                 routerOut>>

\* Promise.all resolves: the results are combined in request order and func
\* returns the merged object with the deduplicated URLs
RouterMerge ==
  /\ pc = "fanout"
  /\ PromiseAllResolved(subPhase)
  /\ pc' = "tool_returned"
  /\ LET results == PromiseAllResults(subResults, completion)
     IN routerOut' = formatToolResult(CombinedData(results), Dedupe(AllUrls(results)))
  /\ UNCHANGED <<config, llmVars, aborted, sessionApprovedTools, loopVars, events, error,
                 execVars, nextId, chatVars, attempt, retryLog, routed, subPhase,
                 subResults, subInvoked, completion>>

(***************************************************************************)
(* Two simultaneous runs and the credentials they take.  Each run builds   *)
(* its agent (Agent.create), then its financial_search routes (callLlm),   *)
(* then an Alpha Vantage sub-tool is invoked; a lookup that throws ends    *)
(* the run.                                                                *)
(***************************************************************************)
\* what the run's next createLLM is given: Agent.create passes
\* config.modelProvider || process.env.DEFAULT_PROVIDER || 'openai' (with
\* DEFAULT_PROVIDER unset), callLlm passes no provider
CreateConfig(r) ==
  [runCfg[r] EXCEPT !.provider = IF @ # "" THEN @ ELSE "openai"]
RouteConfig(r) == [runCfg[r] EXCEPT !.provider = ""]

RunEnded(r) == keyUse[r] # <<>> /\ keyUse[r][Len(keyUse[r])].threw

\* Agent.create, or callLlm in financial_search, calls createLLM
CreateLLM ==
  /\ pc = "llm"
  /\ \E r \in Runs :
       /\ Len(keyUse[r]) < 2
       /\ ~RunEnded(r)
       /\ LET by == IF Len(keyUse[r]) = 0 THEN "create" ELSE "route"
              made == createLLM(IF by = "create" THEN CreateConfig(r)
                                ELSE RouteConfig(r), env)
          IN keyUse' = [keyUse EXCEPT ![r] =
                          Append(@, [by |-> by, model |-> made.model,
                                     provider |-> made.provider,
                                     factory |-> made.factory, name |-> made.name,
                                     key |-> made.key, threw |-> made.threw])]
  /\ UNCHANGED <<config, runCfg, env, routerVars, aborted, sessionApprovedTools,
                 pc, loopVars, events, error, execVars, nextId, chatVars>>

\* the router invokes an Alpha Vantage sub-tool with { metadata: { apiKeys } };
\* a missing key is caught inside the tool and does not end the run
AlphaVantageInvoke ==
  /\ pc = "llm"
  /\ \E r \in Runs :
       /\ Len(keyUse[r]) = 2
       /\ ~RunEnded(r)
       /\ LET key == AlphaVantageKey(runCfg[r].apiKeys, env)
          IN keyUse' = [keyUse EXCEPT ![r] =
                          Append(@, [by |-> "subtool", model |-> <<>>,
                                     provider |-> "", factory |-> "",
                                     name |-> "ALPHA_VANTAGE_API_KEY",
                                     key |-> key, threw |-> FALSE])]
  /\ UNCHANGED <<config, runCfg, env, routerVars, aborted, sessionApprovedTools,
                 pc, loopVars, events, error, execVars, nextId, chatVars>>

Next ==
  \/ IterationStart
  \/ LlmRespond
  \/ LlmFail
  \/ BudgetExhausted
  \/ Abort
  \/ ExecGate
  \/ ApprovalAnswer
  \/ ToolStart
  \/ ToolSettle
  \/ ExecJoin
  \/ ExecCancel
  \/ RunAgent
  \/ ChatCatch

RouterNext ==
  \/ CallLlm
  \/ WithRetryFailure
  \/ WithRetrySuccess
  \/ SubToolSettle
  \/ RouterMerge

SystemNext == Next \/ RouterNext

LlmNext ==
  \/ CreateLLM
  \/ AlphaVantageInvoke

\* the agent loop with its executor, and the chat path
Spec == Init /\ [][Next]_vars

\* every pending model call, approval, tool call and generator step is taken
FairSpec == Spec /\ WF_vars(Next)

\* the meta-router alone
RouterSpec == RouterInit /\ [][RouterNext]_vars

\* the agent loop, the chat path and the meta-router
SystemSpec == SystemInit /\ [][SystemNext]_vars

\* model construction and credentials of two simultaneous runs
LlmSpec == LlmInit /\ [][LlmNext]_vars

(***************************************************************************)
(* Properties.                                                             *)
(***************************************************************************)
Finished == pc \in {"returned", "threw", "tool_returned", "tool_threw"}
EventsOfType(t) == {i \in DOMAIN events : events[i].type = t}
ThinkingCount == Cardinality(EventsOfType("thinking"))
LastEvent == events[Len(events)]
RequestsOf(recs) == [i \in 1..Len(recs) |-> recs[i].request]
RequestedUpTo(k) ==
  LET RECURSIVE Calls(_)
      Calls(j) == IF j = 0 THEN <<>> ELSE Calls(j - 1) \o responses[j].tool_calls
  IN Calls(k)

\* at most one terminal signal, a done event being the last event of a run
\* that returned; the chat stream holds at most the one error event
C1_TerminalState ==
  /\ Cardinality(EventsOfType("done")) + (IF pc = "threw" THEN 1 ELSE 0) <= 1
  /\ \A i \in EventsOfType("done") : i = Len(events) /\ pc = "returned"
  /\ pc = "returned" => EventsOfType("done") # {}
  /\ (pc = "threw") = (error # "")
  /\ closed <= 1
  /\ Len(stream) = closed
  /\ \A i \in DOMAIN stream : stream[i].type = "error" /\ pc = "threw"
\* once the run has ended nothing more is yielded or thrown
C1_NothingAfterTerminal == Finished => UNCHANGED <<events, pc, error>>

\* C1: every run has exactly one terminal event (done, or the failure the
\* generator throws, which the chat stream turns into one error event); it is
\* the last event: nothing is yielded, thrown or enqueued after it.
C1_ExactlyOneTerminalLast == []C1_TerminalState /\ [][C1_NothingAfterTerminal]_vars
\* a run that dispatched a tool and then ended with done
C1_Witness ==
  /\ pc = "returned"
  /\ EventsOfType("tool_end") # {}
  /\ LastEvent.type = "done"

\* passes, thinking events and model calls stay within maxIterations
C2_Bound ==
  /\ ThinkingCount <= EffectiveMaxIterations
  /\ Len(sent) <= EffectiveMaxIterations
  /\ iteration <= EffectiveMaxIterations

\* with maxIterations = M the loop yields at most M thinking events and calls
\* the model at most M times, and, every model call, approval and tool call
\* returning, the run ends.
C2_TerminatesWithinBudget == []C2_Bound /\ <>Finished

\* steps a call of the batch has before it has ended
CallStepsLeft(ph) ==
  CASE ph = "new" -> 4
    [] ph = "asking" -> 3
    [] ph = "approved" -> 2
    [] ph = "running" -> 1
    [] OTHER -> 0
BatchStepsLeft ==
  LET RECURSIVE Sum(_)
      Sum(i) == IF i = 0 THEN 0 ELSE CallStepsLeft(phase[i]) + Sum(i - 1)
  IN Sum(Len(phase))
\* where the run stands within a pass: the model call comes before the
\* dispatch, the dispatch before the next loop test
PassStepsLeft ==
  CASE pc = "llm" -> 3
    [] pc = "dispatch" -> 2
    [] pc \in {"loop", "runner"} -> 1
    [] OTHER -> 0
\* the token can still be signalled; the stream can still be closed
SignalsLeft ==
  (IF hasSignal /\ ~aborted THEN 1 ELSE 0)
    + (IF entry = "chat" /\ closed = 0 THEN 1 ELSE 0)
\* the work a run has left: passes, then steps of the pass, then steps of the
\* batch, then signals; compared from the left
RemainingWork ==
  <<EffectiveMaxIterations - iteration, PassStepsLeft, BatchStepsLeft, SignalsLeft>>
LessWork(a, b) ==
  \E k \in DOMAIN a :
    /\ a[k] < b[k]
    /\ \A j \in 1..(k - 1) : a[j] = b[j]
C2_StepLowersRemainingWork == LessWork(RemainingWork', RemainingWork)
\* the work left is made of naturals, and a step is pending until the run ended
C2_StepPending ==
  /\ \A k \in DOMAIN RemainingWork : RemainingWork[k] \in Nat
  /\ ~Finished => ENABLED Next

\* C2: with maxIterations = M the loop yields at most M thinking events and
\* calls the model at most M times, and the run terminates whatever the model
\* answers: every step lowers the work left, of which the passes left, M
\* minus the passes begun, come first, and a step is pending until the run
\* has ended; so the run ends when its pending steps are taken.
C2_TerminatesByRemainingWork ==
  /\ []C2_Bound
  /\ [][C2_StepLowersRemainingWork]_vars
  /\ []C2_StepPending
\* a run that used its whole budget of two passes
C2_Witness ==
  /\ maxIterations = <<2>>
  /\ Finished
  /\ ThinkingCount = 2
  /\ Len(sent) = 2

\* what C3 asks of a state
C3_State ==
  (/\ EffectiveMaxIterations >= 1
   /\ Len(batches) = EffectiveMaxIterations
   /\ pc # "loop")
  => /\ pc = "returned"
     /\ error = ""
     /\ LastEvent.type = "done"
     /\ LastEvent.iterations = EffectiveMaxIterations
     /\ LastEvent.answer.kind = "string"
     /\ Head(LastEvent.answer.val) = BudgetNote
     /\ Tail(LastEvent.answer.val) = getToolResults(records)
     /\ RequestsOf(records) = RequestedUpTo(Len(responses))
     /\ records # <<>>
     /\ ThinkingCount = EffectiveMaxIterations
     /\ Len(sent) = EffectiveMaxIterations
\* C3: when every pass up to maxIterations requested tool calls and its batch
\* completed, the run ends with a done event, not an error, whose iterations
\* is maxIterations and whose answer is the budget note followed by the
\* rendering of all tool results; each pass made one model call.
C3_BudgetExhaustedDone == []C3_State
\* Scenario D: maxIterations = 1 and the model asked for a tool
C3_Witness ==
  /\ maxIterations = <<1>>
  /\ pc = "returned"
  /\ Len(batches) = 1
  /\ LastEvent.iterations = 1

RecordsBefore(K) ==
  LET Earlier(r) == r.iteration < K IN SelectSeq(records, Earlier)
\* what C4 asks of a state
C4_State ==
  \A K \in DOMAIN sent :
    /\ sent[K].toolResults = getToolResults(RecordsBefore(K))
    /\ sent[K].toolUsage = formatToolUsageForPrompt(RecordsBefore(K))
\* C4: the prompt sent in iteration K renders exactly the records created in
\* iterations before K: none created in iteration K or later, all of K - 1.
C4_PromptSeesEarlierIterationsOnly == []C4_State
\* iteration 2 was prompted with iteration 1's record and has made its own
C4_Witness ==
  /\ Len(sent) = 2
  /\ Len(sent[2].toolResults) = 1
  /\ Len(records) = 2
  /\ records[2].iteration = 2

\* what C5 asks of a state
C5_State ==
  (/\ pc = "returned"
   /\ responses # <<>>
   /\ Len(responses[Len(responses)].tool_calls) = 0)
  => LET k == Len(responses)
         final == responses[Len(responses)]
     IN /\ LastEvent.type = "done"
        /\ LastEvent.iterations = k
        /\ final.content.kind = "string" => LastEvent.answer = final.content
        /\ LastEvent.answer.kind = "string"
        /\ LastEvent.toolCalls = records
        /\ RequestsOf(records) = RequestedUpTo(k - 1)
        /\ Len(batches) = k - 1
        /\ \A j \in 1..(k - 1) : Len(responses[j].tool_calls) > 0
        /\ Len(sent) = k
        /\ k <= EffectiveMaxIterations
\* C5: tool calls on passes 1..k-1 and a tool-call-free response on pass k:
\* the run returns with a done event of iterations k, the response's text as
\* answer and one record per call requested in the k-1 batches, and the model
\* was called k times.
C5_FinalAnswerDone == []C5_State
\* Scenario A: one successful tool call, then the answer on iteration 2
C5_Witness ==
  /\ pc = "returned"
  /\ Len(responses) = 2
  /\ Len(records) = 1
  /\ records[1].outcome = Success
  /\ LastEvent.iterations = 2
  /\ LastEvent.answer = Str(<<"text">>)


\* the position in `thinking` of the text of response k
ThinkingIndex(k) == Cardinality({j \in 1..k : Truthy(responses[j].content)})
\* after the batch of pass j the loop went on: to its next pass, to the
\* cancellation check of that pass, or to the end of the budget
LoopWentOnAfter(j) ==
  \/ Len(sent) > j
  \/ pc = "loop"
  \/ pc = "threw" /\ iteration = j + 1 /\ error = "Agent execution cancelled"
  \/ pc = "returned" /\ j = EffectiveMaxIterations /\ Head(LastEvent.answer.val) = BudgetNote

\* C6 as stated: a response with both text and tool calls never ends the run:
\* the run does not return while that response is the last one received.
C6_NeverEndsTheRun ==
  \A k \in DOMAIN responses :
    (Len(responses[k].tool_calls) > 0 /\ Truthy(responses[k].content)) =>
      (k = Len(responses) => pc # "returned")

\* what C6 asks of a state
C6_State ==
  \A k \in DOMAIN responses :
    (Len(responses[k].tool_calls) > 0 /\ Truthy(responses[k].content)) =>
      /\ ThinkingIndex(k) \in DOMAIN thinking
      /\ thinking[ThinkingIndex(k)] = Stringify(responses[k].content)
      /\ \/ k <= Len(batches) /\ batches[k] = responses[k].tool_calls
         \/ /\ k = Len(batches) + 1
            /\ k = Len(responses)
            /\ batch = responses[k].tool_calls
            /\ pc = "dispatch" \/ (pc = "threw" /\ error = "Agent execution cancelled")
      /\ k <= Len(batches) => LoopWentOnAfter(k)
      /\ \A i \in EventsOfType("done") :
           events[i].iterations = k =>
             /\ events[i].answer # Stringify(responses[k].content)
             /\ Head(events[i].answer.val) = BudgetNote
\* C6 (amended): a response with both text and tool calls is never taken as
\* the final answer: its tool calls are dispatched, its text is recorded as
\* thinking, and after the batch the loop goes on: to the next pass (which may
\* fail fast on cancellation) or, when the response came on pass
\* maxIterations, to the budget-exhausted done event, whose answer is the
\* budget note and never that text.
C6_ToolCallsOverText == []C6_State
\* a text with a tool call, dispatched and followed by the next pass
C6_Witness ==
  /\ Len(responses) = 1
  /\ responses[1].content = Str(<<"text">>)
  /\ Len(responses[1].tool_calls) = 1
  /\ thinking = <<Str(<<"text">>)>>
  /\ Len(batches) = 1
  /\ pc = "llm"

\* what C7 asks of a state
C7_State ==
  \A k \in DOMAIN responses :
    (Len(responses[k].tool_calls) = 0 /\ responses[k].content.val = <<>>) =>
      /\ k = Len(responses)
      /\ pc = "returned"
      /\ error = ""
      /\ LastEvent.type = "done"
      /\ LastEvent.iterations = k
      /\ responses[k].content = Str(<<>>) => LastEvent.answer = Str(<<>>)
      /\ Len(sent) = k
      /\ iteration = k
\* C7: a response with no tool calls and empty content ends the run with a
\* done event of that iteration, with no error and no further pass.
C7_EmptyAnswerIsFinal == []C7_State
\* the model answers '' at once
C7_Witness ==
  /\ pc = "returned"
  /\ Len(responses) = 1
  /\ responses[1] = [content |-> Str(<<>>), tool_calls |-> <<>>]
  /\ LastEvent.answer = Str(<<>>)

EventsFor(t, id) == {i \in EventsOfType(t) : events[i].id = id}
IdsOf(reqs) == {reqs[i].id : i \in DOMAIN reqs}
RecordsOf(j) ==
  LET Made(r) == r.iteration = j IN SelectSeq(records, Made)

\* what C8 asks of a state
C8_State ==
  \A j \in DOMAIN batches :
    LET reqs == responses[j].tool_calls
        ids == IdsOf(reqs)
    IN
      /\ RequestsOf(RecordsOf(j)) = reqs
      /\ \A t \in {"tool_start", "tool_end"} :
           LET typed == EventsOfType(t) IN
             /\ Cardinality({i \in typed : events[i].id \in ids}) = Len(reqs)
             /\ \A id \in ids : Cardinality({i \in typed : events[i].id = id}) = 1
\* C8: a completed batch of N requests has exactly N records, one per request,
\* and exactly N tool_start and N tool_end events, whatever calls failed.
C8_OneRecordAndEventPairPerCall == []C8_State
\* a batch of two: an unknown tool and a tool that returned
C8_Witness ==
  /\ Len(batches) = 1
  /\ Len(records) = 2
  /\ records[1].outcome = Failure("tool not found")
  /\ records[2].outcome = Success
  /\ Cardinality(EventsOfType("tool_start")) = 2
  /\ Cardinality(EventsOfType("tool_end")) = 2

AllRequests ==
  UNION {{responses[k].tool_calls[i] : i \in DOMAIN responses[k].tool_calls} :
           k \in DOMAIN responses}

\* what C9 asks of a state
C9_State ==
  LET starts == EventsOfType("tool_start")
      requests == AllRequests
  IN
  /\ \A n \in DOMAIN invoked :
       \E i \in starts : events[i].id = invoked[n].id /\ i <= invoked[n].at
  /\ \A e \in EventsOfType("tool_end") :
       /\ \E i \in starts : events[i].id = events[e].id /\ i < e
       /\ events[e].result.kind \in {"Success", "Failure"}
       /\ [id |-> events[e].id, name |-> events[e].tool] \in requests
       /\ \A i \in DOMAIN records :
            records[i].request.id = events[e].id =>
              records[i].outcome = events[e].result
       /\ \A i \in DOMAIN batch :
            batch[i].id = events[e].id => outcome[i] = events[e].result
\* C9: a call's tool_start is yielded before its tool is invoked, its tool_end
\* after its tool_start and with a known outcome, the one that is recorded;
\* every tool_end names the tool of its own call.
C9_StartBeforeInvokeEndAfterOutcome == []C9_State
\* two calls in flight together; the second requested ended first
C9_Witness ==
  \E a, b \in EventsOfType("tool_end") :
    /\ a < b
    /\ events[a].id > events[b].id
    /\ \A i \in EventsOfType("tool_start") : i < a
    /\ Len(invoked) = 2

\* what C10 asks of a state
C10_State ==
  /\ error \in {"", "Agent execution cancelled", "AbortError",
                "model invocation failed", "agent.run is not a function"}
  /\ \A j \in DOMAIN batches :
       /\ LoopWentOnAfter(j)
       /\ Len(RecordsOf(j)) = Len(responses[j].tool_calls)
       /\ \A i \in DOMAIN records :
            records[i].iteration = j =>
              \E e \in EventsFor("tool_end", records[i].request.id) :
                events[e].result = records[i].outcome
  /\ \A i \in DOMAIN batch :
       outcome[i] = Failure("tool threw") =>
         \/ pc = "dispatch"
         \/ pc = "threw" /\ SignalAborted /\ error = "Agent execution cancelled"
AskedIds == {asked[n] : n \in DOMAIN asked}
InvokedIds == {invoked[n].id : n \in DOMAIN invoked}
\* what C11 asks of a state
C11_State ==
  /\ \A i \in DOMAIN records :
       records[i].request.name \notin Registered =>
         /\ records[i].outcome = Failure("tool not found")
         /\ records[i].request.id \notin AskedIds
         /\ records[i].request.id \notin InvokedIds
  /\ \A i \in DOMAIN batch :
       batch[i].name \notin Registered =>
         /\ batch[i].id \notin AskedIds
         /\ batch[i].id \notin InvokedIds
         /\ phase[i] \in {"new", "ended"}
         /\ phase[i] = "ended" => outcome[i] = Failure("tool not found")
\* C11: a request whose name the registry does not know is recorded with
\* Failure("tool not found"); the approval callback is never invoked for it,
\* nor is any tool.
C11_UnknownToolNotFound == []C11_State
\* Scenario C under an approval policy: "unknown_tool" is recorded as not
\* found without a question, while its sibling was asked about
C11_Witness ==
  /\ hasApproval
  /\ Len(records) = 2
  /\ records[1].request.name = "unknown_tool"
  /\ records[1].outcome = Failure("tool not found")
  /\ asked = <<records[2].request.id>>

Granted(id) ==
  \E n \in DOMAIN answered :
    answered[n].id = id /\ answered[n].answer \in {"grant_once", "grant_remember"}
NameOfInvoked(n) ==
  (CHOOSE r \in AllRequests : r.id = invoked[n].id).name

\* what C12 asks of a state
C12_State ==
  hasApproval =>
    /\ \A n \in DOMAIN answered :
         answered[n].answer = "deny" =>
           /\ answered[n].id \notin InvokedIds
           /\ \A i \in DOMAIN records :
                records[i].request.id = answered[n].id =>
                  records[i].outcome = Failure("not approved")
           /\ \A i \in DOMAIN batch :
                batch[i].id = answered[n].id =>
                  phase[i] = "ended" /\ outcome[i] = Failure("not approved")
           /\ answered[n].id \in IdsOf(RequestsOf(records)) \cup IdsOf(batch)
    /\ \A n \in DOMAIN invoked :
         Granted(invoked[n].id) \/ NameOfInvoked(n) \in sessionApprovedTools
\* C12: under an approval policy a denied call is never invoked and is
\* recorded with Failure("not approved"); a tool is invoked under the policy
\* only when the callback granted that call or its name is in
\* sessionApprovedTools.
C12_DeniedNeverInvoked == []C12_State
\* one call of a batch was denied and recorded so, its sibling was granted
\* and invoked
C12_Witness ==
  /\ hasApproval
  /\ Len(answered) = 2
  /\ answered[1].answer = "deny"
  /\ answered[2].answer = "grant_once"
  /\ Len(records) = 2
  /\ records[1].outcome = Failure("not approved")
  /\ InvokedIds = {answered[2].id}

\* names a grant-and-remember answer was given for
RememberedNames ==
  {answered[n].name : n \in {m \in DOMAIN answered : answered[m].answer = "grant_remember"}}
\* a grant-and-remember answer for the name came before the call `id` was gated
\* (ids are assigned, and calls gated, in request order)
RememberedBefore(name, id) ==
  \E n \in DOMAIN answered :
    /\ answered[n].answer = "grant_remember"
    /\ answered[n].name = name
    /\ answered[n].id < id
\* config.sessionApprovedTools as the caller passed it
InitiallyApproved == sessionApprovedTools \ RememberedNames
\* registered requests that have been through step 2
GatedRequests ==
  {records[i].request : i \in {j \in DOMAIN records : Resolves(records[j].request)}}
    \cup {batch[i] : i \in {j \in DOMAIN batch : Resolves(batch[j]) /\ phase[j] # "new"}}

\* what C13 asks of a state
C13_State ==
  hasApproval =>
    /\ RememberedNames \subseteq sessionApprovedTools
    /\ \A r \in GatedRequests :
         (r.id \in AskedIds) <=>
           ~(r.name \in InitiallyApproved \/ RememberedBefore(r.name, r.id))
    /\ Len(answered) <= Len(asked)
    /\ \A n \in DOMAIN answered : answered[n].id = asked[n]
\* C13: a name answered grant-and-remember is in sessionApprovedTools from
\* then on, and the callback is invoked for a call exactly when its tool was
\* neither pre-approved nor remembered by an earlier answer: never again after
\* grant-and-remember, again after grant-once or deny.
C13_RememberedNeverAskedAgain == []C13_State
\* a grant-and-remember in iteration 1, and the same tool invoked in
\* iteration 2 without a second question
C13_Witness ==
  /\ Len(answered) = 1
  /\ answered[1].answer = "grant_remember"
  /\ Len(batches) = 1
  /\ Len(invoked) = 2
  /\ asked = <<invoked[1].id>>
  /\ invoked[2].id # invoked[1].id

\* no call of the batch in progress has resolved
NoneResolved == \A i \in DOMAIN batch : phase[i] # "ended"
\* the token is signalled while a batch is being dispatched, none resolved
CancelledInDispatch == pc = "dispatch" /\ SignalAborted /\ NoneResolved
\* the run has failed with the cancellation error
CancellationError == pc = "threw" /\ error = "Agent execution cancelled"

\* the only step after the signal is the one failure for the whole batch:
\* no event (so no tool_start), no record and no per-call outcome
C14_CancelStep ==
  CancelledInDispatch =>
    /\ CancellationError'
    /\ UNCHANGED <<events, records, outcome, phase, invoked, asked>>
\* a batch that was cancelled before any call resolved left no done event, no
\* tool_end, no record and no outcome of its own
C14_CancelledState ==
  (pc = "threw" /\ batch # <<>> /\ NoneResolved) =>
    /\ CancellationError
    /\ EventsOfType("done") = {}
    /\ \A i \in DOMAIN batch :
         /\ outcome[i] = NoOutcome
         /\ EventsFor("tool_end", batch[i].id) = {}
         /\ batch[i].id \notin IdsOf(RequestsOf(records))

\* the failure for the whole batch is pending as soon as the signal is seen
C14_CancelPending == CancelledInDispatch => ENABLED ExecCancel

\* C14: when the token is signalled before any call of a batch has resolved,
\* the run ends with the cancellation error and no done event: that failure is
\* pending and is the only step the run can take; the batch is given up as a
\* whole (no record and no outcome per call) and no tool_start is yielded
\* after the signal.
C14_BatchCancelledAsUnit ==
  /\ [][C14_CancelStep]_vars
  /\ []C14_CancelledState
  /\ []C14_CancelPending
\* cancelled with one call of two in flight and the other not yet started
C14_Witness ==
  /\ CancellationError
  /\ Len(batch) = 2
  /\ NoneResolved
  /\ Len(invoked) = 1
  /\ Cardinality(EventsOfType("tool_start")) = 1
  /\ EventsOfType("tool_end") = {}

\* a pass of the loop is about to begin and the token is already signalled
SignalledAtBoundary ==
  pc = "loop" /\ iteration < EffectiveMaxIterations /\ hasSignal /\ aborted
\* the pass is counted and fails at once: nothing is yielded, sent to the
\* model or dispatched
C15_FailFastStep ==
  SignalledAtBoundary =>
    /\ CancellationError'
    /\ iteration' = iteration + 1
    /\ UNCHANGED <<events, sent, responses, batch, batches, records, invoked>>
\* a run cancelled at a boundary: the failing pass has no thinking event, no
\* model call and no dispatch, and the run has no done event
C15_FailedAtBoundary ==
  (CancellationError /\ batch = <<>>) =>
    /\ ThinkingCount = iteration - 1
    /\ Len(sent) = iteration - 1
    /\ Len(responses) = iteration - 1
    /\ Len(batches) = iteration - 1
    /\ EventsOfType("done") = {}

ModelInvocationError == pc = "threw" /\ error = "model invocation failed"
\* llm.invoke calls of the pass that failed: every call is in `sent`, every
\* call that resolved in `responses`
AttemptsOfFailedCall == Len(sent) - Len(responses)

\* C16: a failure of the loop's model call is surfaced only after the call
\* was tried the fixed number of times, so that one failed attempt never ends
\* the run.
C16_LoopModelCallRetried ==
  ModelInvocationError => AttemptsOfFailedCall = RetryMaxAttempts

\* what the consumer of the run was handed: the events the generator yielded,
\* then what the chat handler's catch clause enqueued
Delivered == events \o stream
ErrorEvents == {i \in DOMAIN Delivered : Delivered[i].type = "error"}

\* C17: when the loop's model call fails the consumer is handed exactly one
\* error event, after every event yielded before the failure and in their
\* order, there is no done event and no further pass runs.
C17_ModelFailureIsOneErrorEvent ==
  (ModelInvocationError /\ (entry = "chat" => closed = 1)) =>
    /\ Cardinality(ErrorEvents) = 1
    /\ ErrorEvents = {Len(Delivered)}
    /\ SubSeq(Delivered, 1, Len(events)) = events
    /\ EventsOfType("done") = {}
    /\ Len(sent) = iteration

\* how often the i-th selected sub-tool call had its tool invoked
SubInvocations(i) == Cardinality({n \in DOMAIN subInvoked : subInvoked[n] = i})
\* how often the request `id` had its tool invoked
Invocations(id) == Cardinality({n \in DOMAIN invoked : invoked[n].id = id})

\* what C18 asks of a state
C18_State ==
  /\ LET requests == AllRequests IN
       \A n \in DOMAIN invoked :
         /\ Invocations(invoked[n].id) = 1
         /\ \E name \in Registered : [id |-> invoked[n].id, name |-> name] \in requests
  /\ \A i \in DOMAIN records :
       records[i].outcome.kind = "Failure" =>
         Invocations(records[i].request.id)
           = (IF records[i].outcome = Failure("tool threw") THEN 1 ELSE 0)
  /\ \A i \in DOMAIN subResults :
       SubInvocations(i) = (IF KnownSubTool(routed.tool_calls[i]) THEN 1 ELSE 0)
  /\ \A n \in DOMAIN subInvoked : subInvoked[n] \in DOMAIN subResults
\* C18: no failure is retried: every ToolCallRequest has its tool invoked at
\* most once, every invocation belongs to a request of its own that names a
\* registered tool, and a recorded failure was invoked once or not at all;
\* every sub-tool call the router selected has its tool invoked at most once,
\* exactly once when it is a known sub-tool, whether it returned or threw.
C18_NoInvocationRetried == []C18_State
\* the router ran two sub-tools, the first threw and the second returned, and
\* each was invoked once
C18_Witness ==
  /\ pc = "tool_returned"
  /\ Len(subResults) = 2
  /\ subResults[1].error = Str(<<"boom">>)
  /\ subResults[2].error = Null
  /\ subResults[2].data # Null
  /\ subInvoked = <<1, 2>>

\* func returned after a routing response that selected no sub-tool
NoSubToolSelected == pc = "tool_returned" /\ Len(routed.tool_calls) = 0
\* the payload marks itself an error the way the payloads of failed fetches
\* and the merged entries of failed sub-tools do: by an `error` key
CarriesErrorKey(out) ==
  \E k \in DOMAIN out.data : k[Len(k)] = "error"

\* C19 as stated: with no sub-tool selected, no sub-tool is invoked and the
\* result is a Success that a consumer cannot tell to be an error outcome.
C19_NoSelectionNotAnError ==
  NoSubToolSelected =>
    /\ subInvoked = <<>>
    /\ routerOut.kind = "Success"
    /\ ~CarriesErrorKey(routerOut)

\* C19 (amended): with no sub-tool selected, no sub-tool is invoked and func
\* returns, it does not throw: a Success outcome with no URLs whose payload
\* explains itself under the keys `error` ('No tools selected for query') and
\* `message` (the model's text, or 'Router did not select tools').
C19_NoSelectionIsSuccessWithErrorPayload ==
  NoSubToolSelected =>
    /\ subInvoked = <<>>
    /\ subResults = <<>>
    /\ routerOut.kind = "Success"
    /\ routerOut.sourceUrls = <<>>
    /\ DOMAIN routerOut.data = {<<"error">>, <<"message">>}
    /\ routerOut.data[<<"error">>] = Str(<<"No tools selected for query">>)
    /\ routerOut.data[<<"message">>] =
         (IF routed.content.kind = "string" THEN routed.content
          ELSE Str(<<"Router did not select tools">>))
\* the routing call failed once, then answered with content blocks and no
\* tool call
C19_Witness ==
  /\ NoSubToolSelected
  /\ attempt = 1
  /\ routed.content = Arr(<<>>)
  /\ routerOut.data[<<"message">>] = Str(<<"Router did not select tools">>)

\* func returned the merge of at least one selected call
MergedSelection == pc = "tool_returned" /\ Len(routed.tool_calls) > 0
\* the i-th selected call threw (its result came from the catch block)
SubCallThrew(i) == subResults[i].data = Null
\* the key a successful result of the call is stored under
SuccessKey(tc) ==
  IF tc.args.ticker # <<>> THEN <<tc.tool>> \o tc.args.ticker ELSE <<tc.tool>>

\* C20: every selected call that threw, a name that is no sub-tool included
\* and whatever the error's message, is in the merged object under
\* `{subToolName}_error` and adds no URL; every other selected call was
\* invoked and its result is merged under its key; func returns one Success.
C20_ThrownSubToolsRecordedAsErrors ==
  MergedSelection =>
    /\ routerOut.kind = "Success"
    /\ \A i \in DOMAIN subResults :
         IF SubCallThrew(i)
           THEN /\ <<subResults[i].tool, "error">> \in DOMAIN routerOut.data
                /\ subResults[i].sourceUrls = <<>>
           ELSE /\ SubInvocations(i) = 1
                /\ SuccessKey(routed.tool_calls[i]) \in DOMAIN routerOut.data
    /\ \A u \in {routerOut.sourceUrls[j] : j \in DOMAIN routerOut.sourceUrls} :
         \E i \in DOMAIN subResults :
           /\ ~SubCallThrew(i)
           /\ \E j \in DOMAIN subResults[i].sourceUrls : subResults[i].sourceUrls[j] = u

\* the same, for the calls whose error has a message that is not ''
C20_NonEmptyMessagesRecorded ==
  (MergedSelection /\ \A i \in DOMAIN subResults : subResults[i].error # Str(<<>>))
    => C20_ThrownSubToolsRecordedAsErrors

\* the i-th selected call returned (its result came from the try block)
SubCallReturned(i) == subResults[i].error = Null
\* no other selected call names the same sub-tool with the same ticker
OnlyCallOfItsTicker(i) ==
  \A j \in DOMAIN subResults :
    (j # i /\ routed.tool_calls[j].tool = routed.tool_calls[i].tool)
      => routed.tool_calls[j].args.ticker # routed.tool_calls[i].args.ticker

\* C21: a sub-tool result that returned is stored under {subToolName}_{ticker}
\* when the call has a ticker and under {subToolName} otherwise; returned
\* calls of one sub-tool with different tickers have different keys, and each
\* key holds the data of its own call.
C21_SuccessKeyedByToolAndTicker ==
  MergedSelection =>
    \A i \in DOMAIN subResults :
      SubCallReturned(i) =>
        LET tc == routed.tool_calls[i]
            key == IF tc.args.ticker = <<>> THEN <<tc.tool>>
                   ELSE <<tc.tool>> \o tc.args.ticker
        IN /\ key \in DOMAIN routerOut.data
           /\ OnlyCallOfItsTicker(i) => routerOut.data[key] = DataOf(i)
           /\ \A j \in DOMAIN subResults :
                (/\ SubCallReturned(j)
                 /\ routed.tool_calls[j].tool = tc.tool
                 /\ routed.tool_calls[j].args.ticker # tc.args.ticker)
                  => /\ SuccessKey(routed.tool_calls[j]) # key
                     /\ routerOut.data[SuccessKey(routed.tool_calls[j])] # DataOf(i)
\* get_stock_price returned for AAPL and for MSFT: two keys, each with its data
C21_Witness ==
  /\ MergedSelection
  /\ Len(routed.tool_calls) = 2
  /\ routed.tool_calls[1] = [tool |-> "get_stock_price", args |-> [ticker |-> <<"AAPL">>]]
  /\ routed.tool_calls[2] = [tool |-> "get_stock_price", args |-> [ticker |-> <<"MSFT">>]]
  /\ SubCallReturned(1) /\ SubCallReturned(2)
  /\ routerOut.data[<<"get_stock_price", "AAPL">>] = DataOf(1)
  /\ routerOut.data[<<"get_stock_price", "MSFT">>] = DataOf(2)

\* the URLs a sequence holds
UrlSet(urls) == {urls[j] : j \in DOMAIN urls}
\* the provenance URLs the selected calls that returned have reported
ReportedUrls ==
  UNION {UrlSet(subResults[i].sourceUrls) :
           i \in {j \in DOMAIN subResults : SubCallReturned(j)}}

\* C22: the combined URL list holds every URL reported by a selected call that
\* returned, each exactly once, and no other URL.
C22_UrlsOnceEach ==
  MergedSelection =>
    /\ UrlSet(routerOut.sourceUrls) = ReportedUrls
    /\ Cardinality(UrlSet(routerOut.sourceUrls)) = Len(routerOut.sourceUrls)
\* two calls returned and both reported u1; a third url came with one of them
C22_Witness ==
  /\ MergedSelection
  /\ Len(subResults) = 2
  /\ subResults[1].sourceUrls = <<"u1">>
  /\ subResults[2].sourceUrls = <<"u2", "u1">>
  /\ routerOut.sourceUrls = <<"u1", "u2">>

\* s is the front of t
IsPrefix(s, t) == Len(s) <= Len(t) /\ SubSeq(t, 1, Len(s)) = s

\* no step removes or reorders a record or a thinking fragment
C23_HistoryOnlyGrows == IsPrefix(records, records') /\ IsPrefix(thinking, thinking')
\* every fragment handed to the model shows the records in insertion order,
\* and stays the front of every later rendering
C23_RenderedInInsertionOrder ==
  /\ \A K \in DOMAIN sent :
       /\ IsPrefix(sent[K].toolResults, getToolResults(records))
       /\ IsPrefix(sent[K].toolUsage, formatToolUsageForPrompt(records))
       /\ Len(sent[K].toolResults) = Len(sent[K].toolUsage)
       /\ \A i \in DOMAIN sent[K].toolResults :
            /\ sent[K].toolResults[i][1] = records[i].request.id
            /\ sent[K].toolUsage[i] = records[i].request.name
  \* the two reads after the loop, with no record in between, agree
  /\ (pc = "returned" /\ LastEvent.answer.val # <<>> /\ Head(LastEvent.answer.val) = BudgetNote)
       => /\ Tail(LastEvent.answer.val) = getToolResults(LastEvent.toolCalls)
          /\ LastEvent.toolCalls = records

KeyUses(r) == {keyUse[r][n] : n \in DOMAIN keyUse[r]}
\* the key the run's own config determines under a name: the one it supplies,
\* the process-wide one when it supplies none
OwnKey(r, name) ==
  IF runCfg[r].apiKeys[name] \notin {Null, Str(<<>>)} THEN runCfg[r].apiKeys[name]
  ELSE env[name]

\* C24: the credential each model call, tool and sub-tool of a run takes is
\* the one the run's own config supplies under that name, the process-wide
\* one only when the run supplies none; it is never a key of the other run.
C24_KeysFromOwnConfig ==
  \A r \in Runs : \A u \in KeyUses(r) :
    u.name # "" =>
      /\ u.key = OwnKey(r, u.name)
      /\ \A o \in Runs \ {r} : u.key # Str(<<"key", o>>)

\* the same for the model calls alone, and no run takes the other's key
C24_ModelKeysFromOwnConfig ==
  \A r \in Runs : \A u \in KeyUses(r) :
    /\ (u.name # "" /\ u.by # "subtool") => u.key = OwnKey(r, u.name)
    /\ \A o \in Runs \ {r} : u.key # Str(<<"key", o>>)

\* the provider a model name stands for by its prefix: the one whose
\* modelPrefix the name starts with ('openrouter/' too), OpenAI when none
PrefixProviders(name) ==
  {i \in DOMAIN PROVIDERS :
     /\ PROVIDERS[i].modelPrefix # <<>>
     /\ \/ StartsWith(name, PROVIDERS[i].modelPrefix)
        \/ PROVIDERS[i].id = "openrouter" /\ StartsWith(name, <<"openrouter", "/">>)}

\* C27: resolveProvider returns the provider whose modelPrefix the model name
\* starts with, and OpenAI only when no provider's prefix matches.
C27_ResolvesByPrefix ==
  \A r \in Runs : \A u \in KeyUses(r) :
    u.by = "route" =>
      IF PrefixProviders(u.model) = {} THEN u.provider = "openai"
      ELSE \E i \in PrefixProviders(u.model) : u.provider = PROVIDERS[i].id

\* a run started through runAgent has ended
RunAgentEnded == entry = "chat" /\ Finished

\* C25: runAgent yields the events of Agent.run for an Agent built from its
\* config: the run of a chat request begins with the thinking event of its
\* first pass, reaches the model, and ends as Agent.run ends, a completed run
\* handing its done event to the caller.
C25_RunAgentYieldsTheRun ==
  RunAgentEnded =>
    /\ iteration >= 1 /\ Len(sent) >= 1
    /\ events # <<>> /\ events[1] = ThinkingEvent(1)
    /\ pc = "returned" => LastEvent.type = "done"
    /\ error # "agent.run is not a function"

\* what was enqueued before the catch clause ran
Forwarded ==
  LET NotFromCatch(e) == e.type # "error" IN SelectSeq(stream, NotFromCatch)
\* the events that came from the catch clause
StreamErrors == {i \in DOMAIN stream : stream[i].type = "error"}

\* the stream holds what the generator yielded, once and in order, then at
\* most the one error event of a generator that threw; it is closed at most
\* once, and is about to be closed when the generator has ended
C30_StreamState ==
  entry = "chat" =>
    /\ Forwarded = events
    /\ closed <= 1
    /\ closed = 0 => StreamErrors = {}
    /\ (closed = 1 /\ pc = "threw") =>
         /\ StreamErrors = {Len(stream)}
         /\ stream[Len(stream)] = [type |-> "error", error |-> error]
    /\ (Finished /\ closed = 0) => ENABLED ChatCatch
\* nothing is enqueued and nothing closed once the stream is closed
C30_NothingAfterClose == closed >= 1 => UNCHANGED <<stream, closed>>

RetryCalls == {i \in DOMAIN retryLog : retryLog[i].op # "wait"}
\* withRetry is still running
Retrying == pc = "route"

\* C26: withRetry calls fn at most 3 times, one call after the other; a call
\* that succeeds is the last and its value is returned; the k-th failure
\* (k = 0, 1) is followed by a wait of 500 * 2^k ms, 500 then 1000, and then
\* the next call; the 3rd failure is followed by no wait and is rethrown.
C26_RetryThreeTimesWithBackoff ==
  /\ Cardinality(RetryCalls) <= 3
  /\ \A i \in DOMAIN retryLog :
       LET e == retryLog[i] IN
         CASE e.op = "call_ok" ->
                \* attempts are numbered in order; success ends the retrying
                /\ i = Len(retryLog) /\ ~Retrying /\ pc # "tool_threw"
                /\ i = 2 * e.attempt + 1
           [] e.op = "call_failed" ->
                /\ i = 2 * e.attempt + 1
                /\ IF e.attempt = 2
                     THEN /\ i = Len(retryLog)
                          /\ pc = "tool_threw"
                          /\ routerOut = Thrown(RejectionOf(2))
                     ELSE /\ i < Len(retryLog)
                          /\ retryLog[i + 1].op = "wait"
                          /\ retryLog[i + 1].ms = (IF e.attempt = 0 THEN 500 ELSE 1000)
           [] e.op = "wait" ->
                /\ i > 1 /\ retryLog[i - 1].op = "call_failed"
                /\ i = Len(retryLog) => Retrying
  /\ (Retrying /\ retryLog # <<>>) => retryLog[Len(retryLog)].op = "wait"
\* two failures with their waits, then a success whose response is returned
C26_Witness ==
  /\ Len(retryLog) = 5
  /\ retryLog[2].ms = 500 /\ retryLog[4].ms = 1000
  /\ retryLog[5].op = "call_ok"
  /\ pc = "tool_returned"
\* three failures: the third is rethrown at once
C26_WitnessRethrown ==
  /\ Len(retryLog) = 5
  /\ retryLog[5] = [op |-> "call_failed", attempt |-> 2, ms |-> 0]
  /\ routerOut = Thrown(RejectionOf(2))

\* every selected call settled, each once, before func returned
AllSettledOnce ==
  /\ Len(completion) = Len(routed.tool_calls)
  /\ {completion[n] : n \in DOMAIN completion} = DOMAIN routed.tool_calls
  /\ \A i \in DOMAIN subPhase : subPhase[i] = "settled"
\* the merge starts when the last selected call has settled, not before
C28_MergeAfterAllSettled == (pc = "fanout" /\ pc' = "tool_returned") => AllSettledOnce
\* what func returned is the merge of the results taken in request order: for
\* given calls and outcomes it is the same whatever order they settled in
C28_MergedInRequestOrder ==
  MergedSelection =>
    /\ AllSettledOnce
    /\ routerOut.data = CombinedData(subResults)
    /\ routerOut.sourceUrls = Dedupe(AllUrls(subResults))

\* C28: the merged object and the combined URL list depend on the selected
\* calls and their outcomes only, not on the order the calls complete in:
\* merging starts after all calls have settled and goes in request order.
C28_MergeIndependentOfCompletionOrder ==
  /\ [][C28_MergeAfterAllSettled]_vars
  /\ []C28_MergedInRequestOrder
\* the second call settled first, and the URLs are those of the first call
\* followed by what the second adds
C28_Witness ==
  /\ MergedSelection
  /\ completion = <<2, 1>>
  /\ subResults[1].sourceUrls = <<"u1">>
  /\ subResults[2].sourceUrls = <<"u2", "u1">>
  /\ routerOut.sourceUrls = <<"u1", "u2">>

\* the selected calls differ pairwise in (sub-tool name, ticker)
PairwiseDistinctCalls ==
  \A i, j \in DOMAIN routed.tool_calls :
    i # j => \/ routed.tool_calls[i].tool # routed.tool_calls[j].tool
             \/ routed.tool_calls[i].args.ticker # routed.tool_calls[j].args.ticker

\* C29: when the selected calls differ pairwise in (sub-tool name, ticker),
\* the merged object has exactly one top-level entry per selected call,
\* failed calls of one sub-tool with different tickers included.
C29_OneEntryPerCall ==
  (MergedSelection /\ PairwiseDistinctCalls) =>
    Cardinality(DOMAIN routerOut.data) = Len(routed.tool_calls)

\* the same, when no two failed calls name the same sub-tool
C29_OneEntryPerCallUnlessSameToolFails ==
  (/\ MergedSelection
   /\ PairwiseDistinctCalls
   /\ \A i, j \in DOMAIN subResults :
        (i # j /\ IsErrorResult(subResults[i]) /\ IsErrorResult(subResults[j]))
          => subResults[i].tool # subResults[j].tool)
    => C29_OneEntryPerCall

====
